---- MODULE Spec2Model ----
(***************************************************************************)
(* dir-diff: the tree comparison engine of src/src/tree.cpp                *)
(* (are_files_different, diff_trees) and the driver of src/src/main.cpp    *)
(* (the option globals, should_ignore_file, should_prune_diff,             *)
(* update_progress, display_diff, main), run on a bounded file system.     *)
(*                                                                         *)
(* A file system is a nested listing: a function from the names present in *)
(* a directory to entries; a directory entry carries the listing of its    *)
(* own children.  A path is the sequence <<root, name, name, ...>>.        *)
(***************************************************************************)
EXTENDS Naturals, Integers, Sequences, FiniteSets, TLC

(***************************************************************************)
(* Bounds of the model.                                                    *)
(***************************************************************************)
\* entries (files and directories together) in one tree
MaxEntries == 2
\* length in bytes of a regular file
MaxLen == 3
\* stands for the 4096-byte buffers of tree.cpp:56, scaled to the file lengths
ChunkSize == 2
\* diff_trees calls active at once: the two roots and the directories below
MaxDepth == 4

Names == {"x", "y"}
Bytes == {0, 1}
Roots == {"A", "B"}
\* a link target is the string readlink(2) returns, here a sequence of
\* names, "." and "/": a sibling's name, "." for the directory holding the
\* link, and the sibling "y" spelt with one separator and with two
Targets ==
    {<<n>> : n \in Names} \cup {<<".">>, <<".", "/", "y">>, <<".", "/", "/", "y">>}
Rdevs == {1, 2}

NoPath == <<>>
NoKids == <<>>
\* a std::unique_ptr<node> that holds nothing
NoNode == <<>>

(***************************************************************************)
(* Entries.  dev/ino are what lstat(2) reports; data is the byte content   *)
(* of a regular file, target the string readlink(2) returns, rdev the      *)
(* st_rdev of a special file.  perm = "noopen" marks an entry open(2)      *)
(* refuses (EACCES): a regular file that cannot be read, a directory that  *)
(* cannot be listed.                                                       *)
(***************************************************************************)
Regular(data, perm) ==
    [type |-> "regular", dev |-> 1, ino |-> NoPath, data |-> data,
     target |-> <<>>, rdev |-> 0, perm |-> perm, kids |-> NoKids]

Symlink(target) ==
    [type |-> "symlink", dev |-> 1, ino |-> NoPath, data |-> <<>>,
     target |-> target, rdev |-> 0, perm |-> "ok", kids |-> NoKids]

Special(rdev) ==
    [type |-> "character", dev |-> 1, ino |-> NoPath, data |-> <<>>,
     target |-> <<>>, rdev |-> rdev, perm |-> "ok", kids |-> NoKids]

Directory(kids, perm) ==
    [type |-> "directory", dev |-> 1, ino |-> NoPath, data |-> <<>>,
     target |-> <<>>, rdev |-> 0, perm |-> perm, kids |-> kids]

Range(s) == {s[i] : i \in DOMAIN s}
Front(s) == SubSeq(s, 1, Len(s) - 1)
Last(s) == s[Len(s)]
Min(a, b) == IF a < b THEN a ELSE b

VARIABLES
    fs,               \* [Roots -> listing]: the two trees on disk
    root1, root2,     \* main.cpp:94, the two positional arguments
    ignore_patterns,  \* main.cpp:96
    paranoid,         \* main.cpp:295 sets it; nothing in tree.cpp reads it
    lstat_fails,      \* which of the two lstat calls of tree.cpp:37-38 fail
    stack,            \* the active diff_trees calls, innermost last
    returned,         \* what the outermost diff_trees call returned
    status,           \* "start", "running", "done", "error" (an exception left diff_trees)
    log,              \* every file system and collaborator call made, in order
    run,              \* 1 for the first comparison, 2 for a repeated one
    first,            \* the result of the first comparison
    first_order,      \* the iteration order each call of the first comparison used
    positional,       \* main.cpp:300, argc - optind: the positional arguments given
    print_legend,     \* main.cpp:240, cleared by --no-legend
    run_quietly,      \* main.cpp:95, set by --quiet
    using_color,      \* main.cpp:135, as main.cpp:313-317 leave it
    add_default_prune_patterns,  \* main.cpp:244, cleared by --no-default-prune
    prune_patterns,   \* main.cpp:97
    max_depth,        \* main.cpp:100
    git_diff_depth,   \* main.cpp:127
    progress_step,    \* main.cpp:89
    out,              \* what was written to stdout, and the patches asked for, in order
    err,              \* what was written to stderr, in order
    exit_status,      \* what main returned; -1 while it runs
    child,            \* main.cpp:161-183: how fork and the git child process end
    n1, n2            \* part_003:267-270, the hash variant: the two trees of nodes

\* what the command line fixes before the comparison starts
options == <<positional, print_legend, run_quietly, using_color,
             add_default_prune_patterns, max_depth, git_diff_depth>>

\* what the program writes besides the result of diff_trees
console == <<progress_step, out, err, exit_status>>

vars == <<fs, root1, root2, ignore_patterns, paranoid, lstat_fails, stack,
          returned, status, log, run, first, first_order,
          options, prune_patterns, console, child, n1, n2>>


(***************************************************************************)
(* The file system provider: what std::filesystem and lstat(2) answer for  *)
(* a path.  Only the last component of a path is ever left unresolved.     *)
(***************************************************************************)
Dangling == <<"?">>

RECURSIVE ListingAt(_)
\* the listing of the real directory at a path made of directory names only
ListingAt(p) ==
    IF Len(p) = 1 THEN fs[p[1]] ELSE ListingAt(Front(p))[Last(p)].kids

RECURSIVE Resolve(_, _)
\* realpath(3) of p with at most k symlinks followed (ELOOP after that)
Resolve(p, k) ==
    IF p = Dangling \/ Len(p) = 1 THEN p
    ELSE LET par == Resolve(Front(p), k) IN
         IF par = Dangling THEN Dangling
         ELSE LET l == ListingAt(par) IN
              IF Last(p) \notin DOMAIN l THEN Dangling
              ELSE LET e == l[Last(p)] IN
                   IF e.type = "symlink"
                   THEN IF k = 0 THEN Dangling
                        ELSE LET names == SelectSeq(e.target,
                                                    LAMBDA c : c \notin {".", "/"})
                             IN  IF names = <<>> THEN par
                                 ELSE Resolve(par \o names, k - 1)
                   ELSE par \o <<Last(p)>>

RootEntry(r) == Directory(fs[r], "ok")

\* fs::directory_entry for a path: the entry its last component names
EntryAt(p) ==
    IF Len(p) = 1 THEN RootEntry(p[1])
    ELSE ListingAt(Resolve(Front(p), MaxEntries))[Last(p)]

\* the type of what the path resolves to, every symlink followed
symlink_status_followed(p) ==
    LET q == Resolve(p, MaxEntries) IN
    IF q = Dangling THEN "not_found" ELSE EntryAt(q).type

\* directory_entry::symlink_status().type(): lstat, the last component not followed
symlink_status(p) == EntryAt(p).type

\* directory_entry::status().type(): stat, every symlink followed
file_status(p) ==
    LET q == Resolve(p, MaxEntries) IN
    IF q = Dangling THEN "not_found" ELSE EntryAt(q).type

\* directory_entry::file_size(): st_size of a regular file
file_size(p) == Len(EntryAt(p).data)

\* std::filesystem::path built from a string: what operator== and
\* operator!= compare is the sequence of its elements, and a run of
\* separators between two elements is one separator.  No string of the
\* model begins or ends with a separator.
fs_path(str) == SelectSeq(str, LAMBDA c : c # "/")

\* fs::read_symlink: the target string, as a path
read_symlink(p) == fs_path(EntryAt(p).target)

\* fs::directory_iterator{p}: the names under p, the path being followed
\* through symlinks as opendir(3) does
Children(p) ==
    LET q == Resolve(p, MaxEntries) IN
    IF q = Dangling THEN NoKids ELSE EntryAt(q).kids

\* opendir(3) succeeds on p
Listable(p) ==
    LET q == Resolve(p, MaxEntries) IN
    /\ q # Dangling
    /\ EntryAt(q).type = "directory"
    /\ EntryAt(q).perm = "ok"

\* what std::ifstream::read can deliver from a path: a stream whose open
\* failed has failbit set, and every read on it stores nothing (gcount() = 0)
Stream(p) == IF EntryAt(p).perm = "noopen" THEN <<>> ELSE EntryAt(p).data

Ev(op, p) == [op |-> op, path |-> p]

(***************************************************************************)
(* main.cpp:102-111 should_ignore_file.  A pattern is a sequence of        *)
(* components, each a name, "*" or "**"; with FNM_PATHNAME no "*" matches  *)
(* across a "/", so that "**" is two stars that match within one component *)
(* as one star does.                                                       *)
(***************************************************************************)
fnmatch(pat, str) ==
    /\ Len(pat) = Len(str)
    /\ \A i \in 1..Len(pat) : pat[i] \in {"*", "**"} \/ pat[i] = str[i]

\* path.string().substr(root.string().size())
substr(path, root) == IF path[1] = root THEN Tail(path) ELSE path

should_ignore_file(path, a_path) ==
    LET str == substr(path, IF a_path THEN root1 ELSE root2) IN
    \E pat \in ignore_patterns : fnmatch(pat, str)

\* main.cpp:98: ".git" and "**/.git"
default_prune_patterns == {<<".git">>, <<"**", ".git">>}

\* the depth test one level late
should_prune_diff_late(diff, depth) ==
    \/ max_depth >= 0 /\ depth > max_depth
    \/ LET str == substr(diff.a_path, root1) IN
       \E pat \in prune_patterns : fnmatch(pat, str)

\* main.cpp:113-125
should_prune_diff(diff, depth) ==
    \/ max_depth >= 0 /\ depth > max_depth - 1
    \/ LET str == substr(diff.a_path, root1) IN
       \E pat \in prune_patterns : fnmatch(pat, str)

\* the spinner moved on whatever the options say
update_progress_always(path) ==
    [progress_step |-> (progress_step + 1) % 8,
     err |-> Append(err, [indicator |-> "|", path_str |-> substr(path, root1)])]

\* main.cpp:90-92
progress_strs == <<"|", "/", "-", "\\", "|", "/", "-", "\\">>

\* main.cpp:142-158: the spinner counter and stderr after one call.  No
\* path of the model is longer than the 72 characters of main.cpp:153.
update_progress(path) ==
    IF run_quietly \/ ~using_color
    THEN [progress_step |-> progress_step, err |-> err]
    ELSE [progress_step |-> (progress_step + 1) % Len(progress_strs),
          err |-> Append(err, [indicator |-> progress_strs[progress_step + 1],
                               path_str |-> substr(path, root1)])]

(***************************************************************************)
(* tree.cpp:26-78 are_files_different.                                     *)
(***************************************************************************)
RECURSIVE read_loop(_, _, _, _, _)
\* tree.cpp:57-72: the chunk loop over the two streams from offset off;
\* the result and the reads made
read_loop(a, b, a_ifs, b_ifs, off) ==
    LET a_buf == SubSeq(a_ifs, off + 1, Min(off + ChunkSize, Len(a_ifs)))
        b_buf == SubSeq(b_ifs, off + 1, Min(off + ChunkSize, Len(b_ifs)))
        ev    == <<Ev("read", a), Ev("read", b)>>
    IN  IF a_buf # b_buf THEN [ret |-> TRUE, ev |-> ev]
        ELSE IF Len(a_buf) < ChunkSize \/ Len(b_buf) < ChunkSize
             THEN [ret |-> FALSE, ev |-> ev]
        ELSE LET rest == read_loop(a, b, a_ifs, b_ifs, off + ChunkSize)
             IN  [ret |-> rest.ret, ev |-> ev \o rest.ev]

\* tree.cpp:36-38: st_a and st_b after the two lstat calls, whose results
\* are not checked: a struct stat whose lstat failed is never written, and
\* every comparison that reads it may come out either way
LstatFailed(side) == lstat_fails = side \/ lstat_fails = "both"

same_inode(a, b) ==
    IF LstatFailed("a") \/ LstatFailed("b") THEN BOOLEAN
    ELSE {EntryAt(a).dev = EntryAt(b).dev /\ EntryAt(a).ino = EntryAt(b).ino}

rdev_differs(a, b) ==
    IF LstatFailed("a") \/ LstatFailed("b") THEN BOOLEAN
    ELSE {EntryAt(a).rdev # EntryAt(b).rdev}

\* the notification made once the two link targets are read
compare_contents_late(a, b, file_type) ==
    IF file_type = "symlink"
    THEN {[ret |-> read_symlink(a) # read_symlink(b),
           ev  |-> <<Ev("read_symlink", a), Ev("read_symlink", b),
                     Ev("update_progress", a)>>]}
    ELSE IF file_type = "regular"
    THEN LET r == read_loop(a, b, Stream(a), Stream(b), 0) IN
         {[ret |-> r.ret,
           ev  |-> <<Ev("update_progress", a), Ev("open", a), Ev("open", b)>> \o r.ev]}
    ELSE {[ret |-> d, ev |-> <<Ev("update_progress", a)>>] : d \in rdev_differs(a, b)}

\* tree.cpp:44-77: what follows the device/inode check
compare_contents(a, b, file_type) ==
    LET progress == <<Ev("update_progress", a)>> IN
    IF file_type = "symlink"
    THEN {[ret |-> read_symlink(a) # read_symlink(b),
           ev  |-> progress \o <<Ev("read_symlink", a), Ev("read_symlink", b)>>]}
    ELSE IF file_type = "regular"
    THEN LET r == read_loop(a, b, Stream(a), Stream(b), 0) IN
         {[ret |-> r.ret,
           ev  |-> progress \o <<Ev("open", a), Ev("open", b)>> \o r.ev]}
    ELSE {[ret |-> d, ev |-> progress] : d \in rdev_differs(a, b)}

\* the size test left out
sizes_never_differ(a, b, file_type) == FALSE

\* tree.cpp:32
sizes_differ(a, b, file_type) ==
    file_type = "regular" /\ file_size(a) # file_size(b)

\* the set of outcomes of one call: the value returned and the calls made
are_files_different(a, b) ==
    LET file_type == symlink_status(a)
        sizes == IF file_type = "regular"
                 THEN <<Ev("file_size", a), Ev("file_size", b)>> ELSE <<>>
        lstats == <<Ev("lstat", a), Ev("lstat", b)>>
    IN  IF sizes_differ(a, b, file_type)
        THEN {[ret |-> TRUE, ev |-> sizes]}
        ELSE UNION {
               IF same
               THEN {[ret |-> FALSE, ev |-> sizes \o lstats]}
               ELSE {[ret |-> o.ret, ev |-> sizes \o lstats \o o.ev] :
                       o \in compare_contents(a, b, file_type)}
               : same \in same_inode(a, b)}


(***************************************************************************)
(* The inputs: pairs of trees.                                             *)
(***************************************************************************)
Contents == UNION {[1..n -> Bytes] : n \in 0..MaxLen}

\* the entries a tree is built from, besides directories; special files
\* and unreadable ones come in pairs, see LeafPairs
TreeLeaves ==
    {Regular(<<0>>, "ok"), Regular(<<1>>, "ok"), Symlink(<<"y">>)}

RECURSIVE EntriesSized(_)
RECURSIVE ListingsSized(_, _)
\* the entries that count k entries, themselves included
EntriesSized(k) ==
    IF k = 1 THEN TreeLeaves \cup {Directory(NoKids, "ok")}
    ELSE {Directory(l, "ok") : l \in ListingsSized(Names, k - 1)}

\* the listings over the names S that hold k entries in all
ListingsSized(S, k) ==
    IF S = {} THEN (IF k = 0 THEN {NoKids} ELSE {})
    ELSE LET n == CHOOSE n \in S : TRUE IN
         UNION {
           IF j = 0 THEN ListingsSized(S \ {n}, k)
           ELSE {(n :> e) @@ rest :
                   rest \in ListingsSized(S \ {n}, k - j),
                   e \in EntriesSized(j)}
           : j \in 0..k}

Trees == UNION {ListingsSized(Names, k) : k \in 0..MaxEntries}

RECURSIVE Stamp(_, _)
\* every entry gets the inode of its own path: no two entries are one file
Stamp(l, p) ==
    [n \in DOMAIN l |->
        [l[n] EXCEPT !.ino = p \o <<n>>,
                     !.kids = IF l[n].type = "directory"
                              THEN Stamp(l[n].kids, p \o <<n>>) ELSE NoKids]]

\* a pair of entries of one type under the name "x" of both roots; with
\* link, B's entry is a hard link to A's
LeafPairs ==
    {<<Regular(da, pa), Regular(db, pb), FALSE>> :
        da \in Contents, db \in Contents,
        pa \in {"ok", "noopen"}, pb \in {"ok", "noopen"}}
    \cup {<<Regular(da, "ok"), Regular(da, "ok"), TRUE>> : da \in Contents}
    \cup {<<Symlink(ta), Symlink(tb), FALSE>> : ta \in Targets, tb \in Targets}
    \cup {<<Symlink(ta), Symlink(ta), TRUE>> : ta \in Targets}
    \cup {<<Special(ra), Special(rb), FALSE>> : ra \in Rdevs, rb \in Rdevs}
    \cup {<<Special(ra), Special(ra), TRUE>> : ra \in Rdevs}
    \cup {<<Directory(NoKids, pa), Directory(NoKids, pb), FALSE>> :
            pa \in {"ok", "noopen"}, pb \in {"ok", "noopen"}}

(***************************************************************************)
(* main.cpp:161-183: the ways fork(2) and the child process can end.  A    *)
(* child that ends is reported by wait(2) as the int wstatus: the exit     *)
(* code in bits 8-15 for a child that exited, the signal number in bits    *)
(* 0-6 and the core flag in bit 7 for a child a signal ended.              *)
(***************************************************************************)
ForkFailed == [kind |-> "fork_failed", wstatus |-> 0]
\* execlp returned: main.cpp:179-181 print and _Exit(127)
ExecFailed == [kind |-> "exec_failed", wstatus |-> 127 * 256]
\* git ran and called exit(code)
Exited(code) == [kind |-> "exited", wstatus |-> (code % 256) * 256]
\* git was ended by the signal sig, with or without a core dump
Signaled(sig, core) ==
    [kind |-> "signaled", wstatus |-> sig + (IF core THEN 128 ELSE 0)]

\* sys/wait.h
WEXITSTATUS(wstatus) == (wstatus \div 256) % 256
WIFEXITED(wstatus) == wstatus % 128 = 0

\* the exit codes of git diff --no-index (0: same, 1: different), of a git
\* that failed (2, 128, 129) and the largest one; SIGKILL, and SIGSEGV
\* with its core dump
ChildOutcomes ==
    {ForkFailed, ExecFailed}
    \cup {Exited(c) : c \in {0, 1, 2, 128, 129, 255}}
    \cup {Signaled(9, FALSE), Signaled(11, TRUE)}

IdleMachine ==
    /\ root1 = "A" /\ root2 = "B"
    /\ stack = <<>> /\ returned = <<>> /\ status = "start" /\ log = <<>>
    /\ run = "first" /\ first = <<>> /\ first_order = <<>>
    /\ progress_step = 0 /\ out = <<>> /\ err = <<>> /\ exit_status = -1
    /\ n1 = NoNode /\ n2 = NoNode

\* main.cpp:89-136, 240-244: the command line names two paths and no option
DefaultOptions ==
    /\ positional = 2
    /\ print_legend = TRUE /\ run_quietly = FALSE /\ using_color = TRUE
    /\ add_default_prune_patterns = TRUE /\ prune_patterns = {}
    /\ max_depth = -1 /\ git_diff_depth = -1
    /\ child = Exited(0)

\* the --ignore lists tried: none, and one that names "x" under the roots
IgnoreSets == {{}, {<<"x">>}}

InitTrees ==
    /\ \E ta \in Trees, tb \in Trees :
          fs = [r \in Roots |-> Stamp(IF r = "A" THEN ta ELSE tb, <<r>>)]
    /\ ignore_patterns \in IgnoreSets
    /\ paranoid = FALSE
    /\ lstat_fails = "never"
    /\ IdleMachine
    /\ DefaultOptions

\* the listing that holds e under "x", directly or inside a directory "x"
Holding(e, r, nested) ==
    IF nested
    THEN "x" :> [Directory("x" :> e, "ok") EXCEPT !.ino = <<r, "x">>]
    ELSE "x" :> e

InitFiles ==
    /\ \E pr \in LeafPairs, nested \in BOOLEAN :
          fs = [r \in Roots |->
                  Holding([(IF r = "A" THEN pr[1] ELSE pr[2])
                              EXCEPT !.ino = IF pr[3] THEN <<"A", "f">> ELSE <<r, "f">>],
                          r, nested)]
    /\ ignore_patterns = {}
    /\ paranoid \in BOOLEAN
    /\ lstat_fails \in {"never", "a", "b", "both"}
    /\ IdleMachine
    /\ DefaultOptions

Init == InitTrees \/ InitFiles

(***************************************************************************)
(* tree.hpp:25-37 struct diff.  An aggregate initialised with three        *)
(* members keeps the defaults of the rest: empty paths, no sub_diffs.      *)
(***************************************************************************)
Diff(type, n, name, a_path, b_path, sub_diffs) ==
    [type |-> type, n |-> n, name |-> name,
     a_path |-> a_path, b_path |-> b_path, sub_diffs |-> sub_diffs]

\* the paths filled in for every record
Diff3_with_paths(type, n, name) == Diff(type, n, name, <<name>>, <<name>>, <<>>)

Diff3(type, n, name) == Diff(type, n, name, NoPath, NoPath, <<>>)

(***************************************************************************)
(* tree.cpp:80-150 diff_trees, one call per stack frame.                   *)
(***************************************************************************)
Perms(S) ==
    {s \in [1..Cardinality(S) -> S] : \A i, j \in DOMAIN s : s[i] = s[j] => i = j}

\* tree.cpp:100: the order in which an unordered_set hands out its elements
\* is fixed by the hash function and by the order of insertion, that is by
\* the build and the two listings: any order, but the same order whenever
\* the same program lists the same two directories again
\* an order drawn afresh by every run, as a per-process hash seed would
IterationOrdersSeeded(a, b) == Perms(DOMAIN Children(a) \cup DOMAIN Children(b))

IterationOrders(a, b) ==
    IF run = "again" THEN {first_order[<<a, b>>]}
    ELSE Perms(DOMAIN Children(a) \cup DOMAIN Children(b))

Cur == stack[Len(stack)]
name_of(f) == Head(f.comb_child)
a_child_of(f) == f.a \o <<name_of(f)>>
b_child_of(f) == f.b \o <<name_of(f)>>
\* tree.cpp:101-102: a_it != a_children.end(), b_it != b_children.end()
a_found(f) == name_of(f) \in DOMAIN Children(f.a)
b_found(f) == name_of(f) \in DOMAIN Children(f.b)
\* the test always passed, b_it read whether the name was found or not
b_it_ne_a_end_always(f) == TRUE

\* tree.cpp:107 compares b_it with a_children.end(): both containers' end()
\* hold a null node pointer in libstdc++ and in libc++, and the iterators
\* compare by that pointer, so the test is b_it != b_children.end()
b_it_ne_a_end(f) == b_found(f)

Looping == status = "running" /\ stack # <<>> /\ Cur.comb_child # <<>>

\* tree.cpp:104-105
IgnoresA(f) == a_found(f) /\ should_ignore_file(a_child_of(f), TRUE)
\* the test of the second side left out
IgnoresB_absent(f) == FALSE

\* tree.cpp:107-108
IgnoresB(f) == b_it_ne_a_end(f) /\ should_ignore_file(b_child_of(f), FALSE)

\* the should_ignore_file calls of one iteration that passes both tests
IgnoreCalls(f) ==
    (IF a_found(f) THEN <<Ev("should_ignore_file", a_child_of(f))>> ELSE <<>>)
    \o (IF b_it_ne_a_end(f) THEN <<Ev("should_ignore_file", b_child_of(f))>> ELSE <<>>)

\* `continue`, or the end of the loop body, with diffs as given
Continue(diffs) ==
    stack' = [stack EXCEPT ![Len(stack)] =
                 [@ EXCEPT !.comb_child = Tail(@), !.diffs = diffs]]

\* tree.cpp:81-97: entering diff_trees(a, b) above the frames stk
Enter(a, b, stk, ev) ==
    IF ~Listable(a)
    THEN /\ status' = "error" /\ stack' = <<>>
         /\ log' = log \o ev \o <<Ev("directory_iterator", a)>>
         /\ UNCHANGED first_order
    ELSE IF ~Listable(b)
    THEN /\ status' = "error" /\ stack' = <<>>
         /\ log' = log \o ev \o <<Ev("directory_iterator", a), Ev("directory_iterator", b)>>
         /\ UNCHANGED first_order
    ELSE \E order \in IterationOrders(a, b) :
         /\ status' = "running"
         /\ stack' = Append(stk, [a |-> a, b |-> b, comb_child |-> order, diffs |-> <<>>])
         /\ log' = log \o ev \o <<Ev("directory_iterator", a), Ev("directory_iterator", b)>>
         /\ first_order' = IF run = "first"
                           THEN (<<a, b>> :> order) @@ first_order
                           ELSE first_order

\* one path taken for two
one_path_given == positional >= 1

\* main.cpp:300: optind < argc && argc - optind >= 2
both_paths_given == positional >= 2

\* main.cpp:300-321: both paths given, the default prune patterns added,
\* diff_trees called on the two roots
Start ==
    /\ status = "start"
    /\ both_paths_given
    /\ Enter(<<root1>>, <<root2>>, <<>>, <<>>)
    /\ UNCHANGED <<fs, root1, root2, ignore_patterns, paranoid, lstat_fails,
                   returned, run, first>>
    /\ prune_patterns' = prune_patterns \cup
                            (IF add_default_prune_patterns
                             THEN default_prune_patterns ELSE {})
    /\ UNCHANGED <<options, child, n1, n2, console>>

\* tree.cpp:104-105
IgnoreA ==
    /\ Looping
    /\ IgnoresA(Cur)
    /\ Continue(Cur.diffs)
    /\ log' = Append(log, Ev("should_ignore_file", a_child_of(Cur)))
    /\ UNCHANGED <<fs, root1, root2, ignore_patterns, paranoid, lstat_fails,
                   returned, status, run, first, first_order>>
    /\ UNCHANGED <<options, child, n1, n2, prune_patterns, console>>

\* tree.cpp:107-108
IgnoreB ==
    /\ Looping
    /\ ~IgnoresA(Cur)
    /\ IgnoresB(Cur)
    /\ Continue(Cur.diffs)
    /\ log' = log \o IgnoreCalls(Cur)
    /\ UNCHANGED <<fs, root1, root2, ignore_patterns, paranoid, lstat_fails,
                   returned, status, run, first, first_order>>
    /\ UNCHANGED <<options, child, n1, n2, prune_patterns, console>>

Classifying == Looping /\ ~IgnoresA(Cur) /\ ~IgnoresB(Cur)

\* the two sides exchanged
missing_side_swapped(f) == IF ~a_found(f) THEN 1 ELSE 0

\* every missing name reported as absent from the second tree
missing_side_second(f) == 1

\* tree.cpp:112
missing_side(f) == IF ~a_found(f) THEN 0 ELSE 1

\* tree.cpp:110-115
Missing ==
    /\ Classifying
    /\ a_found(Cur) # b_found(Cur)
    /\ Continue(Append(Cur.diffs,
                       Diff3("missing", missing_side(Cur), name_of(Cur))))
    /\ log' = log \o IgnoreCalls(Cur)
    /\ UNCHANGED <<fs, root1, root2, ignore_patterns, paranoid, lstat_fails,
                   returned, status, run, first, first_order>>
    /\ UNCHANGED <<options, child, n1, n2, prune_patterns, console>>

Both == Classifying /\ a_found(Cur) /\ b_found(Cur)

\* status() in place of symlink_status(): the link followed
a_type_followed(f) == file_status(a_child_of(f))

\* tree.cpp:126-127
a_type_of(f) == symlink_status(a_child_of(f))
b_type_of(f) == symlink_status(b_child_of(f))

\* directory against non-directory only, as node::is_dir of the hash variant
types_differ_is_dir(f) == (a_type_of(f) = "directory") # (b_type_of(f) = "directory")

\* tree.cpp:129
types_differ(f) == a_type_of(f) # b_type_of(f)

\* tree.cpp:129-132
FileType ==
    /\ Both
    /\ types_differ(Cur)
    /\ Continue(Append(Cur.diffs, Diff3("file_type", -1, name_of(Cur))))
    /\ log' = log \o IgnoreCalls(Cur)
    /\ UNCHANGED <<fs, root1, root2, ignore_patterns, paranoid, lstat_fails,
                   returned, status, run, first, first_order>>
    /\ UNCHANGED <<options, child, n1, n2, prune_patterns, console>>

\* the record of the directory appended before the call on it is made
Recurse_record_first ==
    /\ Both
    /\ ~types_differ(Cur)
    /\ a_type_of(Cur) = "directory"
    /\ Len(stack) < MaxDepth
    /\ Enter(a_child_of(Cur), b_child_of(Cur),
             [stack EXCEPT ![Len(stack)].diffs =
                 Append(@, Diff("contents", -1, name_of(Cur),
                                a_child_of(Cur), b_child_of(Cur), <<>>))],
             IgnoreCalls(Cur) \o <<Ev("diff_trees", a_child_of(Cur))>>)
    /\ UNCHANGED <<fs, root1, root2, ignore_patterns, paranoid, lstat_fails,
                   returned, run, first>>
    /\ UNCHANGED <<options, child, n1, n2, prune_patterns, console>>

\* tree.cpp:134-135: the recursive call
Recurse ==
    /\ Both
    /\ ~types_differ(Cur)
    /\ a_type_of(Cur) = "directory"
    /\ Len(stack) < MaxDepth
    /\ Enter(a_child_of(Cur), b_child_of(Cur), stack,
             IgnoreCalls(Cur) \o <<Ev("diff_trees", a_child_of(Cur))>>)
    /\ UNCHANGED <<fs, root1, root2, ignore_patterns, paranoid, lstat_fails,
                   returned, run, first>>
    /\ UNCHANGED <<options, child, n1, n2, prune_patterns, console>>

\* the size test left out: a record for every pair of directories
emits_always(sub_diff) == TRUE

\* tree.cpp:136
emits_contents(sub_diff) == Len(sub_diff) # 0

\* tree.cpp:149 in a recursive call, then tree.cpp:136-141 in its caller
Return ==
    /\ status = "running"
    /\ Len(stack) > 1
    /\ Cur.comb_child = <<>>
    /\ LET sub_diff == Cur.diffs
           f == stack[Len(stack) - 1]
           diffs == IF emits_contents(sub_diff)
                    THEN Append(f.diffs,
                                Diff("contents", -1, name_of(f),
                                     a_child_of(f), b_child_of(f), sub_diff))
                    ELSE f.diffs
       IN  stack' = [Front(stack) EXCEPT ![Len(stack) - 1] =
                        [@ EXCEPT !.comb_child = Tail(@), !.diffs = diffs]]
    /\ log' = Append(log, [op |-> "return", path |-> Cur.a, ret |-> Cur.diffs])
    /\ UNCHANGED <<fs, root1, root2, ignore_patterns, paranoid, lstat_fails,
                   returned, status, run, first, first_order>>
    /\ UNCHANGED <<options, child, n1, n2, prune_patterns, console>>

\* tree.cpp:144-146
Contents_ ==
    /\ Both
    /\ ~types_differ(Cur)
    /\ a_type_of(Cur) # "directory"
    /\ \E o \in are_files_different(a_child_of(Cur), b_child_of(Cur)) :
          /\ Continue(IF o.ret
                      THEN Append(Cur.diffs, Diff3("contents", -1, name_of(Cur)))
                      ELSE Cur.diffs)
          /\ log' = log \o IgnoreCalls(Cur)
                        \o <<Ev("are_files_different", a_child_of(Cur))>> \o o.ev
          /\ LET p == IF Ev("update_progress", a_child_of(Cur)) \in Range(o.ev)
                      THEN update_progress(a_child_of(Cur))
                      ELSE [progress_step |-> progress_step, err |-> err]
             IN  progress_step' = p.progress_step /\ err' = p.err
    /\ UNCHANGED <<fs, root1, root2, ignore_patterns, paranoid, lstat_fails,
                   returned, status, run, first, first_order>>
    /\ UNCHANGED <<options, child, n1, n2, prune_patterns, out, exit_status>>

\* tree.cpp:149 in the outermost call, back in main.cpp:321
Finish ==
    /\ status = "running"
    /\ Len(stack) = 1
    /\ Cur.comb_child = <<>>
    /\ returned' = Cur.diffs
    /\ status' = "done"
    /\ stack' = <<>>
    /\ first' = IF run = "first" THEN Cur.diffs ELSE first
    /\ UNCHANGED <<fs, root1, root2, ignore_patterns, paranoid, lstat_fails,
                   log, run, first_order>>
    /\ UNCHANGED <<options, child, n1, n2, prune_patterns, console>>

\* the same program run once more on the same two trees
Rerun ==
    /\ status = "done" /\ run = "first"
    /\ run' = "again"
    /\ status' = "start" /\ returned' = <<>> /\ log' = <<>>
    /\ UNCHANGED <<fs, root1, root2, ignore_patterns, paranoid, lstat_fails,
                   stack, first, first_order>>
    /\ progress_step' = 0 /\ err' = <<>>
    /\ UNCHANGED <<options, child, n1, n2, prune_patterns, out, exit_status>>

\* the program run once more with its two arguments exchanged
RerunSwapped ==
    /\ status = "done" /\ run = "first"
    /\ run' = "swapped"
    /\ root1' = root2 /\ root2' = root1
    /\ status' = "start" /\ returned' = <<>> /\ log' = <<>>
    /\ UNCHANGED <<fs, ignore_patterns, paranoid, lstat_fails,
                   stack, first, first_order>>
    /\ progress_step' = 0 /\ err' = <<>>
    /\ UNCHANGED <<options, child, n1, n2, prune_patterns, out, exit_status>>

Next ==
    \/ Start
    \/ IgnoreA
    \/ IgnoreB
    \/ Missing
    \/ FileType
    \/ Recurse
    \/ Return
    \/ Contents_
    \/ Finish

\* one comparison of the two trees
Spec == Init /\ [][Next]_vars

RECURSIVE LongestFile(_)
\* the length of the longest regular file of a listing
LongestFile(l) ==
    IF DOMAIN l = {} THEN 0
    ELSE LET lens == {Len(l[n].data) : n \in DOMAIN l}
                        \cup {LongestFile(l[n].kids) : n \in DOMAIN l}
         IN  CHOOSE d \in lens : \A e \in lens : e <= d

\* the trees of Init whose files fit in one read, every lstat succeeding:
\* which names are entered and how deep does not depend on file contents
InitFair ==
    /\ Init
    /\ lstat_fails = "never" /\ paranoid = FALSE
    /\ \A r \in Roots : LongestFile(fs[r]) <= 1

\* one comparison that is not stopped from outside: diff_trees is one
\* thread of straight-line code, and whatever step it can take it takes
SpecFair == InitFair /\ [][Next]_vars /\ WF_vars(Next)

NextRerun ==
    \/ Next
    \/ Rerun
    \/ RerunSwapped

\* two runs see the same two trees: no entry vanishes under either of them
InitRerun == Init /\ lstat_fails = "never" /\ paranoid = FALSE

\* a comparison followed by a second one of the same two trees
SpecRerun == InitRerun /\ [][NextRerun]_vars

(***************************************************************************)
(* main.cpp:191-222 display_diff: what it writes on stdout and, through    *)
(* generate_git_diff, on stderr, and the patches it asks for, in order.    *)
(* A line of stdout is the                                                 *)
(* number of "|  " printed before it, the color it is printed in ("" with  *)
(* colors off, main.cpp:313-317), its marker, the name and what follows    *)
(* the name.                                                               *)
(***************************************************************************)
Line(depth, color, marker, name, suffix) ==
    [op |-> "line", depth |-> depth,
     color |-> IF using_color THEN color ELSE "",
     marker |-> marker, name |-> name, suffix |-> suffix]

\* main.cpp:211-213: the call of generate_git_diff
GitDiff(diff) == [op |-> "generate_git_diff", a |-> diff.a_path, b |-> diff.b_path]

\* a line on stderr
Stderr(text) == [op |-> "stderr", text |-> text]

\* main.cpp:160-189: the call and what it and its child write on stderr
generate_git_diff(diff) ==
    <<GitDiff(diff)>>
    \o (IF child.kind = "fork_failed"
        THEN <<Stderr("Failed to fork")>>
        ELSE (IF child.kind = "exec_failed"
              THEN <<Stderr("Failed to exec")>> ELSE <<>>)
             \o (IF WEXITSTATUS(child.wstatus) # 0 /\ WEXITSTATUS(child.wstatus) # 1
                 THEN <<Stderr("git diff invocation failed")>> ELSE <<>>))

\* main.cpp:211
git_diff_here(depth) == git_diff_depth >= 0 /\ depth - 1 = git_diff_depth

\* the two markers exchanged
missing_marker_swapped(n) == IF n # 0 THEN "+" ELSE "-"

\* main.cpp:200
missing_marker(n) == IF n # 0 THEN "-" ELSE "+"

RECURSIVE display_diff(_, _)
RECURSIVE display_sub_diffs(_, _)
\* a pruned record's children printed all the same
display_pruned_expanded(diff, depth) ==
    <<Line(depth, "yellow", "?", diff.name, " (pruned; different)")>>
    \o display_sub_diffs(diff.sub_diffs, depth + 1)

\* main.cpp:208-209
display_pruned(diff, depth) ==
    <<Line(depth, "yellow", "?", diff.name, " (pruned; different)")>>

display_diff(diff, depth) ==
    IF diff.type = "missing"
    THEN <<Line(depth, IF diff.n # 0 THEN "red" ELSE "green",
                missing_marker(diff.n), diff.name, "")>>
    ELSE IF diff.type = "file_type"
    THEN <<Line(depth, "blue", "!", diff.name, "")>>
    ELSE IF Len(diff.sub_diffs) = 0
    THEN <<Line(depth, "yellow", "?", diff.name, "")>>
    ELSE IF should_prune_diff(diff, depth)
    THEN display_pruned(diff, depth)
    ELSE (IF git_diff_here(depth) THEN generate_git_diff(diff) ELSE <<>>)
         \o <<Line(depth, "yellow", "?", diff.name, ":")>>
         \o display_sub_diffs(diff.sub_diffs, depth + 1)

\* main.cpp:216-217
display_sub_diffs(sub_diffs, depth) ==
    IF sub_diffs = <<>> THEN <<>>
    ELSE display_diff(Head(sub_diffs), depth)
         \o display_sub_diffs(Tail(sub_diffs), depth)

Text(text) == [op |-> "text", text |-> text]

\* main.cpp:330-336
Legend ==
    <<Text("Legend:"),
      Text("  - foo - exists only in 1st tree"),
      Text("  + foo - exists only in 2nd tree"),
      Text("  ! foo - types differ (directory vs file, etc)"),
      Text("  ? foo - contents differ")>>

\* main.cpp:328
RootDiff == Diff("contents", -1, "<root>", <<root1>>, <<root2>>, returned)

\* main.cpp:300-308: a path is missing
Usage ==
    /\ status = "start"
    /\ ~both_paths_given
    /\ out' = Append(out, Text("Missing positional argument(s): <path> <path>"))
    /\ exit_status' = 1
    /\ status' = "exit"
    /\ UNCHANGED <<fs, root1, root2, ignore_patterns, paranoid, lstat_fails,
                   stack, returned, log, run, first, first_order>>
    /\ UNCHANGED <<options, child, n1, n2, prune_patterns, progress_step, err>>

\* main.cpp:322-342: diff_trees has returned
Display ==
    /\ status = "done"
    /\ LET cleared == IF ~run_quietly /\ using_color
                       THEN Append(err, [indicator |-> "", path_str |-> NoPath])
                       ELSE err
           written == display_diff(RootDiff, 0)
       IN  IF Len(returned) = 0
           THEN /\ out' = Append(out, Text("No differences."))
                /\ err' = cleared
           ELSE /\ out' = out \o (IF print_legend THEN Legend ELSE <<>>)
                               \o <<Text("Diff:")>>
                               \o SelectSeq(written, LAMBDA e : e.op # "stderr")
                /\ err' = cleared \o SelectSeq(written, LAMBDA e : e.op = "stderr")
    /\ exit_status' = 0
    /\ status' = "exit"
    /\ UNCHANGED <<fs, root1, root2, ignore_patterns, paranoid, lstat_fails,
                   stack, returned, log, run, first, first_order>>
    /\ UNCHANGED <<options, child, n1, n2, prune_patterns, progress_step>>

(***************************************************************************)
(* The inputs of main: a command line and two trees.                       *)
(***************************************************************************)
RECURSIVE GitAt(_, _)
\* a directory ".git" that holds one file of one byte, d directories down
GitAt(d, byte) ==
    IF d = 0 THEN ".git" :> Directory("x" :> Regular(<<byte>>, "ok"), "ok")
    ELSE "x" :> Directory(GitAt(d - 1, byte), "ok")

\* the trees main is run on: files, a link, nested directories, and ".git"
\* directories at every depth that MaxDepth calls reach
MainListings(byte) ==
    {NoKids,
     ("x" :> Regular(<<byte>>, "ok")) @@ ("y" :> Symlink(<<"x">>)),
     ("x" :> Directory("y" :> Regular(<<byte>>, "ok"), "ok"))
        @@ ("y" :> Regular(<<byte>>, "ok"))}
    \cup {GitAt(d, byte) : d \in 0..(MaxDepth - 2)}

InitMain ==
    /\ \E ta \in MainListings(0), tb \in MainListings(1) :
          fs = [r \in Roots |-> Stamp(IF r = "A" THEN ta ELSE tb, <<r>>)]
    /\ ignore_patterns \in {{}, {<<"y">>}}
    /\ paranoid = FALSE
    /\ lstat_fails = "never"
    /\ IdleMachine
    /\ positional \in 0..2
    /\ print_legend \in BOOLEAN
    /\ run_quietly \in BOOLEAN
    /\ using_color \in BOOLEAN
    /\ add_default_prune_patterns \in BOOLEAN
    /\ prune_patterns \in {{}, {<<"x">>}}
    /\ max_depth \in -1..(MaxDepth - 2)
    /\ git_diff_depth \in -1..1
    /\ child = Exited(0)

\* the same program run once more on the same two trees, the progress
\* indicator switched the other way by --quiet or by --color
RerunProgress ==
    /\ status = "done" /\ run = "first"
    /\ run' = "again"
    /\ \E q, c \in BOOLEAN :
          /\ (q \/ ~c) # (run_quietly \/ ~using_color)
          /\ run_quietly' = q /\ using_color' = c
    /\ status' = "start" /\ returned' = <<>> /\ log' = <<>>
    /\ progress_step' = 0 /\ err' = <<>>
    /\ UNCHANGED <<fs, root1, root2, ignore_patterns, paranoid, lstat_fails,
                   stack, first, first_order>>
    /\ UNCHANGED <<child, n1, n2, positional, print_legend, add_default_prune_patterns,
                   max_depth, git_diff_depth, prune_patterns, out, exit_status>>

InitProgress ==
    /\ \E ta \in MainListings(0), tb \in MainListings(1) :
          fs = [r \in Roots |-> Stamp(IF r = "A" THEN ta ELSE tb, <<r>>)]
    /\ ignore_patterns \in {{}, {<<"y">>}}
    /\ paranoid = FALSE
    /\ lstat_fails = "never"
    /\ IdleMachine
    /\ positional = 2
    /\ print_legend = TRUE
    /\ run_quietly \in BOOLEAN
    /\ using_color \in BOOLEAN
    /\ add_default_prune_patterns = TRUE /\ prune_patterns = {}
    /\ max_depth = -1 /\ git_diff_depth = -1
    /\ child = Exited(0)

NextProgress ==
    \/ Next
    \/ RerunProgress

\* a comparison followed by a second one with the progress indicator
\* enabled in one of the two and suppressed in the other
SpecProgress == InitProgress /\ [][NextProgress]_vars

\* main run with --git-diff, whatever becomes of fork and of the child
InitGit ==
    /\ \E ta \in MainListings(0), tb \in MainListings(1) :
          fs = [r \in Roots |-> Stamp(IF r = "A" THEN ta ELSE tb, <<r>>)]
    /\ ignore_patterns \in {{}, {<<"y">>}}
    /\ paranoid = FALSE
    /\ lstat_fails = "never"
    /\ IdleMachine
    /\ positional = 2
    /\ print_legend = TRUE /\ run_quietly = FALSE /\ using_color = TRUE
    /\ add_default_prune_patterns = TRUE /\ prune_patterns = {}
    /\ max_depth = -1
    /\ git_diff_depth \in -1..1
    /\ child \in ChildOutcomes

NextGit ==
    \/ Next
    \/ Display

\* one run of the program that compares, renders and asks for patches
SpecGit == InitGit /\ [][NextGit]_vars

NextMain ==
    \/ Next
    \/ Usage
    \/ Display

\* one run of the program, from its command line to its exit
SpecMain == InitMain /\ [][NextMain]_vars


(***************************************************************************)
(* The hash variant of the program, part_003: build_node hashes each tree  *)
(* into nodes, diff_nodes walks the two node trees and prints.  The hash   *)
(* function is taken to be free of collisions: the digest of a byte string *)
(* is the byte string between two marks, so that two digests are equal     *)
(* exactly when the same bytes were fed.                                   *)
(***************************************************************************)
\* part_003:109 hash->final: the digest of what was fed since the last one
Digest(fed) == <<"H(">> \o fed \o <<")">>

\* part_003:40-47 struct node
Node(path, hash, is_dir, children, ordered_hashes) ==
    [path |-> path, hash |-> hash, is_dir |-> is_dir,
     children |-> children, ordered_hashes |-> ordered_hashes]

\* the order of the keys of a std::map<std::string, ...>
NameOrder == <<".git", "x", "y">>
SortedNames(S) == SelectSeq(NameOrder, LAMBDA name : name \in S)

RECURSIVE FedByChildren(_, _)
\* part_003:90-93: the name and the digest of every child, in key order
FedByChildren(names, ordered_hashes) ==
    IF names = <<>> THEN <<>>
    ELSE <<Head(names)>> \o ordered_hashes[Head(names)]
         \o FedByChildren(Tail(names), ordered_hashes)

RECURSIVE VisitedBy(_, _)
\* the paths update_progress was called with below a directory, in order
VisitedBy(order, built) ==
    IF order = <<>> THEN <<>>
    ELSE built[Head(order)].visited \o VisitedBy(Tail(order), built)

\* part_003:76 dentry.is_symlink()
is_symlink(p) == symlink_status(p) = "symlink"

RECURSIVE build_node(_)
\* part_003:70-112: the nodes a call can return, one per order in which
\* directory_iterator hands out the children, each with the paths visited
build_node(p) ==
    IF is_symlink(p)
    THEN {[n |-> Node(p, Digest(EntryAt(p).target), FALSE, <<>>, <<>>),
           visited |-> <<p>>]}
    ELSE IF file_status(p) = "directory"
    THEN LET S == DOMAIN Children(p)
             outcomes == [name \in S |-> build_node(p \o <<name>>)]
             choices == {built \in [S -> UNION {outcomes[name] : name \in S}] :
                           \A name \in S : built[name] \in outcomes[name]}
         IN  {LET ordered_hashes == [name \in S |-> built[name].n.hash]
                  \* part_003:86: a child stored under a digest replaces the
                  \* child stored under the same digest before it
                  stored(h) == CHOOSE i \in DOMAIN order :
                                  /\ built[order[i]].n.hash = h
                                  /\ \A j \in DOMAIN order :
                                        built[order[j]].n.hash = h => j <= i
                  children == [h \in {ordered_hashes[name] : name \in S} |->
                                  built[order[stored(h)]].n]
              IN  [n |-> Node(p,
                              Digest(FedByChildren(SortedNames(S), ordered_hashes)),
                              TRUE, children, ordered_hashes),
                   visited |-> <<p>> \o VisitedBy(order, built)]
              : order \in Perms(S), built \in choices}
    ELSE IF file_status(p) = "regular"
    THEN {[n |-> Node(p, Digest(Stream(p)), FALSE, <<>>, <<>>), visited |-> <<p>>]}
    ELSE {[n |-> Node(p, Digest(<<>>), FALSE, <<>>, <<>>), visited |-> <<p>>]}

\* part_003:122-128 struct diff
HashDiff(type, n, name, a, b) == [type |-> type, n |-> n, name |-> name, a |-> a, b |-> b]

\* part_003:146-171: the record pushed for one name, if any
classify(a, b, name) ==
    LET in_a == name \in DOMAIN a.ordered_hashes
        in_b == name \in DOMAIN b.ordered_hashes
    IN  IF in_a # in_b
        THEN <<HashDiff("missing", IF ~in_a THEN 0 ELSE 1, name, NoNode, NoNode)>>
        ELSE LET a_hash == a.ordered_hashes[name]
                 b_hash == b.ordered_hashes[name]
                 a_node == a.children[a_hash]
                 b_node == b.children[b_hash]
             IN  IF a_hash = b_hash THEN <<>>
                 ELSE IF a_node.is_dir # b_node.is_dir
                 THEN <<HashDiff("kind", -1, name, NoNode, NoNode)>>
                 ELSE <<HashDiff("mismatch", -1, name, a_node, b_node)>>

RECURSIVE classify_all(_, _, _)
\* part_003:145-172: the records of the names taken in one order
classify_all(a, b, order) ==
    IF order = <<>> THEN <<>>
    ELSE classify(a, b, Head(order)) \o classify_all(a, b, Tail(order))

\* part_003:119, 186-205: a line under depth + 1 bars, always in color
HashLine(depth, color, marker, name, suffix) ==
    [op |-> "line", depth |-> depth + 1, color |-> color,
     marker |-> marker, name |-> name, suffix |-> suffix]

\* part_003:176-181
HashLegend ==
    <<Text("Legend:"),
      Text("- foo - exists only in 1st tree"),
      Text("+ foo - exists only in 2nd tree"),
      Text("! foo - types differ (directory vs file)"),
      Text("? foo - contents differ"),
      Text("Diff:"),
      [op |-> "line", depth |-> 0, color |-> "", marker |-> "",
       name |-> "<root>", suffix |-> ""]>>

RECURSIVE diff_nodes(_, _, _)
RECURSIVE print_diffs(_, _)
\* part_003:131-210: what a call can print, one outcome per order in which
\* the unordered_set hands out the names
diff_nodes(a, b, depth) ==
    LET comb_child == IF a.hash # b.hash
                      THEN DOMAIN a.ordered_hashes \cup DOMAIN b.ordered_hashes
                      ELSE {}
    IN  UNION {
          LET diffs == classify_all(a, b, order) IN
          IF diffs # <<>>
          THEN {(IF depth = 0 THEN HashLegend ELSE <<>>) \o printed :
                   printed \in print_diffs(diffs, depth)}
          ELSE {IF depth = 0 THEN <<Text("No differences.")>> ELSE <<>>}
          : order \in Perms(comb_child)}

\* part_003:184-206
print_diffs(diffs, depth) ==
    IF diffs = <<>> THEN {<<>>}
    ELSE LET diff == Head(diffs)
             head_lines ==
               IF diff.type = "missing"
               THEN {<<HashLine(depth, IF diff.n # 0 THEN "red" ELSE "green",
                                IF diff.n # 0 THEN "-" ELSE "+", diff.name, "")>>}
               ELSE IF diff.type = "kind"
               THEN {<<HashLine(depth, "blue", "!", diff.name, "")>>}
               ELSE IF ~diff.a.is_dir
               THEN {<<HashLine(depth, "yellow", "?", diff.name, "")>>}
               ELSE IF diff.name = ".git"
               THEN {<<HashLine(depth, "yellow", "?", diff.name, " (not descending)")>>}
               ELSE {<<HashLine(depth, "yellow", "?", diff.name, ":")>> \o below :
                        below \in diff_nodes(diff.a, diff.b, depth + 1)}
         IN  {f \o rest : f \in head_lines, rest \in print_diffs(Tail(diffs), depth)}

\* part_003:54-68 update_progress of this variant, called for every path
\* of a build_node call: the spinner steps and what goes to stderr
HashProgress(visited, step) ==
    [i \in DOMAIN visited |->
        [indicator |-> progress_strs[((step + i - 1) % Len(progress_strs)) + 1],
         path_str |-> Tail(visited[i])]]

\* part_003:266-268 and 269-271: one tree is processed
BuildTree(root, tree) ==
    /\ both_paths_given
    /\ \E built \in build_node(<<root>>) :
          /\ IF tree = 1 THEN n1' = built.n /\ n2' = n2
                         ELSE n2' = built.n /\ n1' = n1
          /\ err' = err \o <<Stderr(IF tree = 1 THEN "Processing tree 1"
                                                ELSE "Processing tree 2")>>
                        \o HashProgress(built.visited, progress_step)
                        \o <<[indicator |-> "", path_str |-> NoPath]>>
          /\ progress_step' = (progress_step + Len(built.visited)) % Len(progress_strs)
    /\ UNCHANGED <<fs, root1, root2, ignore_patterns, paranoid, lstat_fails,
                   stack, returned, log, run, first, first_order>>
    /\ UNCHANGED <<options, child, prune_patterns, out, exit_status>>

\* part_003:266-268
BuildTree1 ==
    /\ status = "start"
    /\ BuildTree(root1, 1)
    /\ status' = "tree1"

\* part_003:269-271
BuildTree2 ==
    /\ status = "tree1"
    /\ BuildTree(root2, 2)
    /\ status' = "tree2"

\* part_003:273: the two node trees are compared and the result printed
DiffNodes ==
    /\ status = "tree2"
    /\ \E printed \in diff_nodes(n1, n2, 0) : out' = out \o printed
    /\ exit_status' = 0
    /\ status' = "exit"
    /\ UNCHANGED <<fs, root1, root2, ignore_patterns, paranoid, lstat_fails,
                   stack, returned, log, run, first, first_order>>
    /\ UNCHANGED <<options, child, n1, n2, prune_patterns, progress_step, err>>

\* the entries the hash variant is run on: files and links whose bytes are
\* names, so that a file can hold what a link points at, and directories
HashEntries ==
    {Regular(<<>>, "ok"), Regular(<<"y">>, "ok"), Regular(<<"x">>, "ok"),
     Symlink(<<"y">>), Special(1),
     Directory(NoKids, "ok"),
     Directory("x" :> Regular(<<"y">>, "ok"), "ok"),
     Directory("x" :> Symlink(<<"y">>), "ok"),
     Directory("y" :> Regular(<<"y">>, "ok"), "ok")}

HashListings ==
    {NoKids}
    \cup {"x" :> e : e \in HashEntries}
    \cup {("x" :> e) @@ ("y" :> f) :
             e \in {Regular(<<>>, "ok"), Directory(NoKids, "ok"),
                    Directory("x" :> Regular(<<"y">>, "ok"), "ok")},
             f \in {Regular(<<>>, "ok"), Directory(NoKids, "ok")}}
    \cup {".git" :> Directory("x" :> Regular(<<"x">>, "ok"), "ok"),
          ".git" :> Directory("x" :> Regular(<<"y">>, "ok"), "ok")}

InitHash ==
    /\ \E ta \in HashListings, tb \in HashListings :
          fs = [r \in Roots |-> Stamp(IF r = "A" THEN ta ELSE tb, <<r>>)]
    /\ ignore_patterns = {}
    /\ paranoid = FALSE
    /\ lstat_fails = "never"
    /\ IdleMachine
    /\ DefaultOptions

NextHash ==
    \/ BuildTree1
    \/ BuildTree2
    \/ DiffNodes

\* one run of the hash variant on two trees
SpecHash == InitHash /\ [][NextHash]_vars

(***************************************************************************)
(* Vocabulary of the properties.                                           *)
(***************************************************************************)
Frames == Range(stack)
InA(f, n) == n \in DOMAIN Children(f.a)
InB(f, n) == n \in DOMAIN Children(f.b)
APath(f, n) == f.a \o <<n>>
BPath(f, n) == f.b \o <<n>>
\* the names of a call whose loop iteration is over
Processed(f) == (DOMAIN Children(f.a) \cup DOMAIN Children(f.b)) \ Range(f.comb_child)
RecordsFor(diffs, n) == {i \in DOMAIN diffs : diffs[i].name = n}
IsPrefix(p, q) == Len(p) <= Len(q) /\ SubSeq(q, 1, Len(p)) = p
\* a name the ignore filter removes, on the side it is present on
Ignored(f, n) ==
    \/ InA(f, n) /\ should_ignore_file(APath(f, n), TRUE)
    \/ InB(f, n) /\ should_ignore_file(BPath(f, n), FALSE)
\* the calls made on a path or below it, the ignore filter's aside
Touched(p) ==
    {i \in DOMAIN log : log[i].op # "should_ignore_file" /\ IsPrefix(p, log[i].path)}
\* the calls of one kind made on exactly one path
Calls(op, p) == {i \in DOMAIN log : log[i].op = op /\ log[i].path = p}
\* the one record of f for the name n is d
OnlyRecord(f, n, d) ==
    \E i \in DOMAIN f.diffs : RecordsFor(f.diffs, n) = {i} /\ f.diffs[i] = d
\* a name of a call that went through classification on both sides
Compared(f, n) == n \in Processed(f) /\ InA(f, n) /\ InB(f, n) /\ ~Ignored(f, n)

RECURSIVE Equivalent(_, _)
\* two listings with the same names, the same lstat type under every name,
\* equal bytes, link targets and device numbers, and equivalent subdirectories
Equivalent(la, lb) ==
    /\ DOMAIN la = DOMAIN lb
    /\ \A n \in DOMAIN la :
          /\ la[n].type = lb[n].type
          /\ la[n].data = lb[n].data
          /\ la[n].target = lb[n].target
          /\ la[n].rdev = lb[n].rdev
          /\ la[n].type = "directory" => Equivalent(la[n].kids, lb[n].kids)

RECURSIVE Inodes(_)
\* the device and inode numbers of the entries of a listing, one per entry
Inodes(l) ==
    UNION {{<<l[n].dev, l[n].ino>>} \cup Inodes(l[n].kids) : n \in DOMAIN l}

NoSharedInode == Inodes(fs["A"]) \cap Inodes(fs["B"]) = {}

(***************************************************************************)
(* C1: with no ignore patterns and no inode shared by the two trees,       *)
(* diff_trees returns the empty list exactly when the two trees are        *)
(* equivalent: same names, same lstat types, equal bytes, link targets and *)
(* device numbers, at every level.                                         *)
(***************************************************************************)
C1_EmptyIffEquivalent ==
    (status = "done" /\ ignore_patterns = {} /\ NoSharedInode /\ lstat_fails = "never")
        => (returned = <<>> <=> Equivalent(fs[root1], fs[root2]))

(***************************************************************************)
(* C2: a name present in exactly one listing and not ignored has exactly   *)
(* one record, a missing record without children or paths whose n is 1     *)
(* when only A has the name and 0 when only B has it, and no call is ever  *)
(* made on the entry or below it.                                          *)
(***************************************************************************)
C2_MissingRecord ==
    \A f \in Frames : \A n \in Processed(f) :
        (InA(f, n) # InB(f, n) /\ ~Ignored(f, n))
            => /\ OnlyRecord(f, n, Diff3("missing", IF InA(f, n) THEN 1 ELSE 0, n))
               /\ Touched(APath(f, n)) = {}
               /\ Touched(BPath(f, n)) = {}

\* a non-empty directory that only A has was passed over, and so was a name only B has
C2_Witness ==
    \E f \in Frames : \E n, m \in Processed(f) :
        /\ InA(f, n) /\ ~InB(f, n) /\ ~Ignored(f, n)
        /\ EntryAt(APath(f, n)).type = "directory"
        /\ EntryAt(APath(f, n)).kids # NoKids
        /\ InB(f, m) /\ ~InA(f, m) /\ ~Ignored(f, m)

(***************************************************************************)
(* C3: a name present on both sides whose lstat types differ has exactly   *)
(* one record, of kind file_type, and the pair is neither handed to        *)
(* are_files_different nor to a recursive diff_trees call.                 *)
(***************************************************************************)
C3_TypeMismatchRecord ==
    \A f \in Frames : \A n \in Processed(f) :
        (Compared(f, n) /\ EntryAt(APath(f, n)).type # EntryAt(BPath(f, n)).type)
            => /\ OnlyRecord(f, n, Diff3("file_type", -1, n))
               /\ Calls("are_files_different", APath(f, n)) = {}
               /\ Calls("diff_trees", APath(f, n)) = {}
               /\ Touched(APath(f, n)) = {}
               /\ Touched(BPath(f, n)) = {}

\* a directory in A against a regular file in B, and a symlink against a regular file
C3_Witness ==
    \E f, g \in Frames : \E n \in Processed(f), m \in Processed(g) :
        /\ Compared(f, n)
        /\ EntryAt(APath(f, n)).type = "directory"
        /\ EntryAt(BPath(f, n)).type = "regular"
        /\ Compared(g, m)
        /\ EntryAt(APath(g, m)).type = "symlink"
        /\ EntryAt(BPath(g, m)).type = "regular"

(***************************************************************************)
(* C4: a symlink in A that points at a directory, against a real directory *)
(* of the same name in B, has exactly one file_type record, and neither    *)
(* the link nor the directory is ever listed or entered under that name.   *)
(***************************************************************************)
C4_SymlinkToDirectory ==
    \A f \in Frames : \A n \in Processed(f) :
        (/\ Compared(f, n)
         /\ EntryAt(APath(f, n)).type = "symlink"
         /\ file_status(APath(f, n)) = "directory"
         /\ EntryAt(BPath(f, n)).type = "directory")
            => /\ OnlyRecord(f, n, Diff3("file_type", -1, n))
               /\ \A i \in DOMAIN log :
                     log[i].op \in {"diff_trees", "directory_iterator"}
                        => /\ ~IsPrefix(APath(f, n), log[i].path)
                           /\ ~IsPrefix(BPath(f, n), log[i].path)

\* such a pair was classified, the directory in B holding an entry
C4_Witness ==
    \E f \in Frames : \E n \in Processed(f) :
        /\ Compared(f, n)
        /\ EntryAt(APath(f, n)).type = "symlink"
        /\ file_status(APath(f, n)) = "directory"
        /\ EntryAt(BPath(f, n)).type = "directory"
        /\ EntryAt(BPath(f, n)).kids # NoKids


RECURSIVE Strip(_)
\* a listing without what tells a copy from its original: device and inode numbers
Strip(l) ==
    [n \in DOMAIN l |-> [l[n] EXCEPT !.dev = 0, !.ino = NoPath, !.kids = Strip(@)]]

Identical(la, lb) == Strip(la) = Strip(lb)

BothDirectories(f, n) ==
    /\ Compared(f, n)
    /\ EntryAt(APath(f, n)).type = "directory"
    /\ EntryAt(BPath(f, n)).type = "directory"

(***************************************************************************)
(* C5: for a name that is a real directory on both sides exactly one       *)
(* recursive call is made; the name has a contents record exactly when     *)
(* that call returned a non-empty list, and then the record's children are *)
(* the list returned; identical subdirectories leave no record.  A         *)
(* subdirectory one of whose entries vanishes between its type being read  *)
(* and its lstat is not identical to its copy.                             *)
(***************************************************************************)
C5_RecursiveResult ==
    \A f \in Frames : \A n \in Processed(f) :
        BothDirectories(f, n)
            => /\ Cardinality(Calls("diff_trees", APath(f, n))) = 1
               /\ \E i \in Calls("return", APath(f, n)) :
                     /\ Calls("return", APath(f, n)) = {i}
                     /\ IF log[i].ret = <<>>
                        THEN RecordsFor(f.diffs, n) = {}
                        ELSE \E j \in DOMAIN f.diffs :
                                /\ RecordsFor(f.diffs, n) = {j}
                                /\ f.diffs[j].type = "contents"
                                /\ f.diffs[j].sub_diffs = log[i].ret
               /\ (/\ lstat_fails = "never"
                   /\ Identical(EntryAt(APath(f, n)).kids, EntryAt(BPath(f, n)).kids))
                     => RecordsFor(f.diffs, n) = {}

\* two identical non-empty directories were entered and left no record
C5_Witness ==
    \E f \in Frames : \E n \in Processed(f) :
        /\ BothDirectories(f, n)
        /\ EntryAt(APath(f, n)).kids # NoKids
        /\ Identical(EntryAt(APath(f, n)).kids, EntryAt(BPath(f, n)).kids)
        /\ Calls("return", APath(f, n)) # {}
        /\ RecordsFor(f.diffs, n) = {}

NamesOf(d, type) == {d[i].name : i \in {j \in DOMAIN d : d[j].type = type}}
MissingOf(d, side) ==
    {d[i].name : i \in {j \in DOMAIN d : d[j].type = "missing" /\ d[j].n = side}}

RECURSIVE Mirrored(_, _)
\* two lists that flag the same names, missing sides exchanged, at every level
Mirrored(d, e) ==
    /\ NamesOf(d, "file_type") = NamesOf(e, "file_type")
    /\ NamesOf(d, "contents") = NamesOf(e, "contents")
    /\ MissingOf(d, 0) = MissingOf(e, 1)
    /\ MissingOf(d, 1) = MissingOf(e, 0)
    /\ NamesOf(d, "missing") = MissingOf(d, 0) \cup MissingOf(d, 1)
    /\ NamesOf(e, "missing") = MissingOf(e, 0) \cup MissingOf(e, 1)
    /\ \A i \in DOMAIN d : \A j \in DOMAIN e :
          (d[i].name = e[j].name /\ d[i].type = "contents" /\ e[j].type = "contents")
             => Mirrored(d[i].sub_diffs, e[j].sub_diffs)

(***************************************************************************)
(* C6: diff_trees(A, B) and diff_trees(B, A) flag the same names at every  *)
(* level: the same file_type names, the same contents names, and the same  *)
(* missing names with n exchanged.  The trees are the same in both runs:   *)
(* no entry vanishes between its type being read and its lstat.            *)
(***************************************************************************)
C6_Symmetry ==
    (status = "done" /\ run = "swapped" /\ lstat_fails = "never")
        => Mirrored(first, returned)

\* the exchanged run ended with a missing record of each side and a directory record
C6_Witness ==
    /\ status = "done" /\ run = "swapped" /\ lstat_fails = "never"
    /\ \E i, j \in DOMAIN returned :
          /\ returned[i].type = "missing"
          /\ returned[j].type = "contents" /\ returned[j].sub_diffs # <<>>
          /\ \E k \in DOMAIN returned[j].sub_diffs :
                returned[j].sub_diffs[k].type = "missing"

BothOfType(f, n, type) ==
    /\ Compared(f, n)
    /\ EntryAt(APath(f, n)).type = type
    /\ EntryAt(BPath(f, n)).type = type

OpsOn(p) == {log[i].op : i \in Touched(p)}

SameInode(f, n) ==
    /\ EntryAt(APath(f, n)).dev = EntryAt(BPath(f, n)).dev
    /\ EntryAt(APath(f, n)).ino = EntryAt(BPath(f, n)).ino

ContentReads(p) == Calls("read", p) \cup Calls("read_symlink", p)

(***************************************************************************)
(* C9: two regular files or two symlinks with the same device and inode    *)
(* numbers are reported identical without any content or link target read, *)
(* unless paranoid mode is on: then the short-circuit is skipped and the   *)
(* bytes or targets are read.                                              *)
(***************************************************************************)
C9_HardLinkUnlessParanoid ==
    \A f \in Frames : \A n \in Processed(f) :
        (/\ BothOfType(f, n, "regular") \/ BothOfType(f, n, "symlink")
         /\ SameInode(f, n)
         /\ lstat_fails = "never")
            => IF paranoid
               THEN /\ ContentReads(APath(f, n)) # {}
                    /\ ContentReads(BPath(f, n)) # {}
               ELSE /\ ContentReads(APath(f, n)) = {}
                    /\ ContentReads(BPath(f, n)) = {}
                    /\ RecordsFor(f.diffs, n) = {}

\* an open(2) or lstat(2) made by are_files_different has failed
FailureSeen ==
    \E i \in DOMAIN log :
        \/ log[i].op = "open" /\ EntryAt(log[i].path).perm = "noopen"
        \/ log[i].op = "lstat" /\ LstatFailed(IF log[i].path[1] = root1 THEN "a" ELSE "b")

(***************************************************************************)
(* C10: a file system failure inside are_files_different (an lstat that    *)
(* fails, a regular file that cannot be opened) leaves diff_trees as an    *)
(* error: the comparison is aborted, and the failure never becomes a       *)
(* "same" or a "different" answer.                                         *)
(***************************************************************************)
C10_FailurePropagates ==
    FailureSeen => status = "error"


RECURSIVE RecordPaths(_, _)
\* the paths, relative to the roots, of the records of a record tree
RecordPaths(diffs, prefix) ==
    UNION {{prefix \o <<diffs[i].name>>}
             \cup RecordPaths(diffs[i].sub_diffs, prefix \o <<diffs[i].name>>)
           : i \in DOMAIN diffs}

Matches(patterns, str) == \E pat \in patterns : fnmatch(pat, str)

(***************************************************************************)
(* C11: a name whose entry should_ignore_file accepts, on the one side it  *)
(* is present on or on both, gets no record, and no call is made on its    *)
(* entries or below them: it is neither recursed into nor compared; and no *)
(* record of the result tree, at any level, stands at an ignored path.     *)
(***************************************************************************)
C11_IgnoredAbsent ==
    /\ \A f \in Frames : \A n \in Processed(f) :
          Ignored(f, n)
             => /\ RecordsFor(f.diffs, n) = {}
                /\ Touched(APath(f, n)) = {}
                /\ Touched(BPath(f, n)) = {}
    /\ status = "done"
          => \A p \in RecordPaths(returned, <<>>) : ~Matches(ignore_patterns, p)

\* an ignored name that is a directory on both sides, with different
\* children, has been passed over, and the comparison went on to its end
C11_Witness ==
    /\ status = "done"
    /\ ignore_patterns # {}
    /\ \E n \in DOMAIN fs[root1] \cap DOMAIN fs[root2] :
          /\ should_ignore_file(<<root1, n>>, TRUE)
          /\ fs[root1][n].type = "directory" /\ fs[root2][n].type = "directory"
          /\ ~Equivalent(fs[root1][n].kids, fs[root2][n].kids)
          /\ RecordsFor(returned, n) = {}
          /\ Touched(<<root1, n>>) = {}

\* the lines display_diff has printed, in order
Lines == SelectSeq(out, LAMBDA e : e.op = "line")

\* the line of the directory record a line below the root line is printed under
Parent(i) ==
    CHOOSE j \in 1..(i - 1) :
        /\ Lines[j].depth = Lines[i].depth - 1
        /\ \A k \in (j + 1)..(i - 1) : Lines[k].depth >= Lines[i].depth

RECURSIVE PathOf(_)
\* the path, relative to the roots, of the entry a line stands for
PathOf(i) ==
    IF Lines[i].depth = 0 THEN <<>> ELSE PathOf(Parent(i)) \o <<Lines[i].name>>

\* the entry at a relative path below real directories exists under a root
Has(r, p) == Last(p) \in DOMAIN ListingAt(<<r>> \o Front(p))

RECURSIVE VisitedPaths(_, _, _)
\* the relative paths of the records display_diff visits: those of a list
\* and, below every directory record that is not pruned, those of its children
VisitedPaths(diffs, prefix, depth) ==
    UNION {{prefix \o <<diffs[i].name>>}
             \cup (IF diffs[i].sub_diffs # <<>> /\ ~should_prune_diff(diffs[i], depth)
                   THEN VisitedPaths(diffs[i].sub_diffs,
                                     prefix \o <<diffs[i].name>>, depth + 1)
                   ELSE {})
           : i \in DOMAIN diffs}

Shown == status = "exit" /\ exit_status = 0 /\ returned # <<>>

(***************************************************************************)
(* C12: when differences are shown, the first line is the root's, and      *)
(* every other line is printed one level deeper than, and after, the line  *)
(* of the directory record that holds its record; there is exactly one     *)
(* line per record visited; a line's marker is "-" for a name only the     *)
(* first tree has, "+" for a name only the second tree has, "!" for a name *)
(* whose two types differ and "?" for a name of one type on both sides.    *)
(***************************************************************************)
C12_OneLinePerRecord ==
    Shown =>
        /\ Lines # <<>>
        /\ Lines[1].depth = 0 /\ Lines[1].marker = "?" /\ Lines[1].name = "<root>"
        /\ \A i \in 2..Len(Lines) :
              /\ Lines[i].depth >= 1
              /\ Lines[i].depth <= Lines[i - 1].depth + 1
              /\ Lines[Parent(i)].marker = "?" /\ Lines[Parent(i)].suffix = ":"
        /\ \A i, j \in 2..Len(Lines) : PathOf(i) = PathOf(j) => i = j
        /\ {PathOf(i) : i \in 2..Len(Lines)}
              = (IF should_prune_diff(RootDiff, 0) THEN {}
                 ELSE VisitedPaths(returned, <<>>, 1))
        /\ \A i \in 2..Len(Lines) :
              LET p == PathOf(i)
                  m == Lines[i].marker
              IN  /\ m = "-" <=> (Has(root1, p) /\ ~Has(root2, p))
                  /\ m = "+" <=> (~Has(root1, p) /\ Has(root2, p))
                  /\ m = "!" <=> /\ Has(root1, p) /\ Has(root2, p)
                                 /\ symlink_status(<<root1>> \o p)
                                       # symlink_status(<<root2>> \o p)
                  /\ m = "?" <=> /\ Has(root1, p) /\ Has(root2, p)
                                 /\ symlink_status(<<root1>> \o p)
                                       = symlink_status(<<root2>> \o p)

\* a "-" line and a "+" line were printed two levels below the root line
C12_Witness ==
    /\ Shown
    /\ \E i, j \in 2..Len(Lines) :
          /\ Lines[i].marker = "-" /\ Lines[i].depth = 2
          /\ Lines[j].marker = "+" /\ Lines[j].depth = 2

RECURSIVE Records(_, _, _)
\* every record of a record tree with its relative path and the depth
\* display_diff would be called on it with
Records(diffs, prefix, depth) ==
    UNION {{[path |-> prefix \o <<diffs[i].name>>, depth |-> depth, diff |-> diffs[i]]}
             \cup Records(diffs[i].sub_diffs, prefix \o <<diffs[i].name>>, depth + 1)
           : i \in DOMAIN diffs}

\* the root record and the records below it
AllRecords ==
    {[path |-> <<>>, depth |-> 0, diff |-> RootDiff]} \cup Records(returned, <<>>, 1)

\* the records display_diff is called on
Visited(r) ==
    \/ r.depth = 0
    \/ ~should_prune_diff(RootDiff, 0) /\ r.path \in VisitedPaths(returned, <<>>, 1)

LinesAt(p) == {i \in 1..Len(Lines) : PathOf(i) = p}
LinesBelow(p) ==
    {i \in 1..Len(Lines) : IsPrefix(p, PathOf(i)) /\ PathOf(i) # p}

PrunedRecord(r) == r.diff.sub_diffs # <<>> /\ should_prune_diff(r.diff, r.depth)

C13_PrunedLine ==
    Shown =>
        \A r \in AllRecords :
            PrunedRecord(r)
               => /\ LinesBelow(r.path) = {}
                  /\ Visited(r)
                        => \E i \in 1..Len(Lines) :
                              /\ LinesAt(r.path) = {i}
                              /\ Lines[i].marker = "?"
                              /\ Lines[i].suffix = " (pruned; different)"

\* rendering leaves the computed tree as diff_trees returned it
C13_RenderFrame == status' = "exit" => returned' = returned

(***************************************************************************)
(* C13: a directory contents record for which should_prune_diff is true    *)
(* has exactly one line, marked as pruned, when display_diff reaches it,   *)
(* and no line is printed for any record below it; the record tree that    *)
(* diff_trees returned, children of pruned records included, is the same   *)
(* after rendering as before.                                              *)
(***************************************************************************)
C13_PruneAtRenderOnly == [](C13_PrunedLine) /\ [][C13_RenderFrame]_vars

\* a directory record below the root was printed as pruned while the tree
\* returned still holds its children
C13_Witness ==
    /\ Shown
    /\ \E r \in AllRecords :
          /\ r.depth >= 1 /\ PrunedRecord(r) /\ Visited(r)
          /\ LinesAt(r.path) # {} /\ LinesBelow(r.path) = {}
          /\ Records(r.diff.sub_diffs, r.path, r.depth + 1) # {}

(***************************************************************************)
(* C14: with the default prune patterns added, a directory record named    *)
(* ".git", at whatever depth below the roots, has its line when            *)
(* display_diff reaches it and no line is printed for anything below it.   *)
(***************************************************************************)
C14_GitNotExpanded ==
    (Shown /\ add_default_prune_patterns) =>
        \A r \in AllRecords :
            (r.diff.name = ".git" /\ r.diff.sub_diffs # <<>>)
               => /\ LinesBelow(r.path) = {}
                  /\ Visited(r) => LinesAt(r.path) # {}

(***************************************************************************)
(* C15: with --max-depth=D, D >= 0, no line is printed deeper than D,      *)
(* every directory record that has a line at depth D or deeper is printed  *)
(* as pruned, and with D = 0 the one line printed is the pruned root's.    *)
(***************************************************************************)
C15_MaxDepth ==
    (Shown /\ max_depth >= 0) =>
        /\ \A i \in 1..Len(Lines) : Lines[i].depth <= max_depth
        /\ \A r \in AllRecords :
              (r.diff.sub_diffs # <<>> /\ r.depth >= max_depth)
                 => \A i \in LinesAt(r.path) :
                       Lines[i].suffix = " (pruned; different)"
        /\ max_depth = 0
              => /\ Len(Lines) = 1
                 /\ Lines[1].name = "<root>"
                 /\ Lines[1].suffix = " (pruned; different)"

\* with --max-depth=1 and no prune pattern, a directory with differing
\* children was printed as pruned one level below the root
C15_Witness ==
    /\ Shown /\ max_depth = 1 /\ prune_patterns = {}
    /\ \E r \in AllRecords :
          /\ r.depth = 1 /\ r.diff.sub_diffs # <<>>
          /\ \E i \in LinesAt(r.path) : Lines[i].suffix = " (pruned; different)"

\* the generate_git_diff calls made, in order
GitDiffs == SelectSeq(out, LAMBDA e : e.op = "generate_git_diff")

\* a record of a pair of differing directories at depth D of --git-diff=D,
\* the children of the root record being at depth 0
AtGitDiffDepth(r) == r.diff.sub_diffs # <<>> /\ r.depth - 1 = git_diff_depth

(***************************************************************************)
(* C16: with --git-diff=D, D >= 0, generate_git_diff is called exactly     *)
(* once, with the record's two paths, for every record of a pair of        *)
(* differing directories at depth D, and every call made is the call of    *)
(* such a record.                                                          *)
(***************************************************************************)
C16_GitDiffAtDepth ==
    (Shown /\ git_diff_depth >= 0) =>
        /\ \A r \in AllRecords :
              AtGitDiffDepth(r)
                 => \E i \in 1..Len(GitDiffs) :
                       {j \in 1..Len(GitDiffs) : GitDiffs[j] = GitDiff(r.diff)} = {i}
        /\ \A i \in 1..Len(GitDiffs) :
              \E r \in AllRecords : AtGitDiffDepth(r) /\ GitDiffs[i] = GitDiff(r.diff)

UsageError == Text("Missing positional argument(s): <path> <path>")

ProgressEnabled == ~run_quietly /\ using_color

\* the step holds a call of update_progress
ProgressCalled ==
    \E i \in (Len(log) + 1)..Len(log') : log'[i].op = "update_progress"

\* what a step that calls update_progress leaves alone, and what the call
\* does to the spinner counter and to stderr
C18_ProgressFrame ==
    ProgressCalled
        => /\ UNCHANGED <<fs, root1, root2, ignore_patterns, paranoid, options,
                          prune_patterns, out, exit_status, returned>>
           /\ IF ProgressEnabled
              THEN /\ progress_step' = (progress_step + 1) % Len(progress_strs)
                   /\ Len(err') = Len(err) + 1
              ELSE UNCHANGED <<progress_step, err>>

\* two runs that differ in whether progress is shown return the same list
C18_SameResult == (status = "done" /\ run = "again") => returned = first

(***************************************************************************)
(* C18: the list diff_trees returns is the same with the progress          *)
(* indicator shown and with it suppressed by --quiet or by colors being    *)
(* off; a call of update_progress changes the spinner counter and stderr   *)
(* when progress is shown, nothing when it is suppressed, and in neither   *)
(* case any other variable of the program.                                 *)
(***************************************************************************)
C18_ProgressNoEffect == [](C18_SameResult) /\ [][C18_ProgressFrame]_vars

\* the second run, with progress shown, has printed the spinner and found
\* the differing pair the first run found with progress suppressed
C18_Witness ==
    /\ status = "done" /\ run = "again"
    /\ ProgressEnabled /\ err # <<>> /\ progress_step > 0
    /\ returned # <<>> /\ returned = first

\* the name is a real directory under both directories of a call
DirectoryPair(a, b, n) ==
    /\ n \in DOMAIN Children(a) /\ n \in DOMAIN Children(b)
    /\ symlink_status(a \o <<n>>) = "directory"
    /\ symlink_status(b \o <<n>>) = "directory"

RECURSIVE WellFormed(_, _, _)
\* the records of the list a call on the directories a and b builds
WellFormed(diffs, a, b) ==
    \A i \in DOMAIN diffs :
        LET d == diffs[i] IN
        IF d.type = "missing"
        THEN d.n \in {0, 1} /\ d.sub_diffs = <<>> /\ d.a_path = NoPath /\ d.b_path = NoPath
        ELSE IF d.type = "file_type"
        THEN d.n = -1 /\ d.sub_diffs = <<>> /\ d.a_path = NoPath /\ d.b_path = NoPath
        ELSE /\ d.type = "contents"
             /\ d.n = -1
             /\ d.sub_diffs # <<>> <=> DirectoryPair(a, b, d.name)
             /\ IF d.sub_diffs # <<>>
                THEN /\ d.a_path = a \o <<d.name>>
                     /\ d.b_path = b \o <<d.name>>
                     /\ WellFormed(d.sub_diffs, d.a_path, d.b_path)
                ELSE d.a_path = NoPath /\ d.b_path = NoPath

(***************************************************************************)
(* C19: every record of the list a diff_trees call is building, and of the *)
(* tree the outermost call returned, is well formed: a missing record has  *)
(* n 0 or 1, a file_type record n -1, both without children and paths; a   *)
(* contents record has n -1, has children exactly when its name is a       *)
(* directory on both sides, and has then, and only then, the two           *)
(* directories' full paths as a_path and b_path.                           *)
(***************************************************************************)
C19_WellFormedRecords ==
    /\ \A f \in Frames : WellFormed(f.diffs, f.a, f.b)
    /\ status = "done" => WellFormed(returned, <<root1>>, <<root2>>)

\* the tree returned holds a directory record with its two paths, whose
\* children hold the record of a differing file
C19_Witness ==
    /\ status = "done"
    /\ \E j \in DOMAIN returned :
          /\ returned[j].type = "contents" /\ returned[j].a_path # NoPath
          /\ \E k \in DOMAIN returned[j].sub_diffs :
                /\ returned[j].sub_diffs[k].type = "contents"
                /\ returned[j].sub_diffs[k].sub_diffs = <<>>

\* the chunks of ChunkSize bytes, from the first on, up to and including
\* the first chunk in which the two byte sequences differ or fall short
RECURSIVE ChunksRead(_, _, _)
ChunksRead(da, db, off) ==
    LET ca == SubSeq(da, off + 1, Min(off + ChunkSize, Len(da)))
        cb == SubSeq(db, off + 1, Min(off + ChunkSize, Len(db)))
    IN  IF ca # cb \/ Len(ca) < ChunkSize \/ Len(cb) < ChunkSize THEN 1
        ELSE 1 + ChunksRead(da, db, off + ChunkSize)

EqualSizeFiles(f, n) ==
    /\ BothOfType(f, n, "regular")
    /\ Len(EntryAt(APath(f, n)).data) = Len(EntryAt(BPath(f, n)).data)
    /\ ~SameInode(f, n)
    /\ lstat_fails = "never"

(***************************************************************************)
(* C20: two regular files of equal size that are not one inode are         *)
(* reported different exactly when their bytes differ, whatever their      *)
(* length; each side is read chunk by chunk up to the first chunk that     *)
(* differs or, failing that, up to the chunk in which both reads fall      *)
(* short.                                                                  *)
(***************************************************************************)
C20_EqualSizeContents ==
    \A f \in Frames : \A n \in Processed(f) :
        EqualSizeFiles(f, n)
           => LET da == EntryAt(APath(f, n)).data
                  db == EntryAt(BPath(f, n)).data
              IN  /\ RecordsFor(f.diffs, n) # {} <=> da # db
                  /\ Cardinality(Calls("read", APath(f, n))) = ChunksRead(da, db, 0)
                  /\ Cardinality(Calls("read", BPath(f, n))) = ChunksRead(da, db, 0)

\* what is done on the two symlinks of a pair that goes past the inode check
SymlinkOps == {"are_files_different", "lstat", "update_progress", "read_symlink"}

(***************************************************************************)
(* C21: two symlinks of one name that are not one inode are reported       *)
(* different exactly when their target strings are unequal, whatever the   *)
(* targets resolve to: the links are lstat'ed and read, never followed,    *)
(* listed or entered.  Two symlinks that are one inode are reported        *)
(* identical without their targets being read.                             *)
(***************************************************************************)
C21_SymlinkTargets ==
    \A f \in Frames : \A n \in Processed(f) :
        (BothOfType(f, n, "symlink") /\ lstat_fails = "never")
           => LET ta == EntryAt(APath(f, n)).target
                  tb == EntryAt(BPath(f, n)).target
              IN  IF SameInode(f, n)
                  THEN /\ RecordsFor(f.diffs, n) = {}
                       /\ OpsOn(APath(f, n)) = {"are_files_different", "lstat"}
                       /\ OpsOn(BPath(f, n)) = {"lstat"}
                  ELSE /\ IF ta # tb
                          THEN OnlyRecord(f, n, Diff3("contents", -1, n))
                          ELSE RecordsFor(f.diffs, n) = {}
                       /\ OpsOn(APath(f, n)) = SymlinkOps
                       /\ OpsOn(BPath(f, n)) = {"lstat", "read_symlink"}

\* two links with the same target string were found identical, A's
\* resolving to a directory and B's to something else
C21_Witness ==
    \E f \in Frames : \E n \in Processed(f) :
        /\ BothOfType(f, n, "symlink") /\ lstat_fails = "never"
        /\ ~SameInode(f, n)
        /\ EntryAt(APath(f, n)).target = EntryAt(BPath(f, n)).target
        /\ file_status(APath(f, n)) = "directory"
        /\ file_status(BPath(f, n)) # "directory"
        /\ RecordsFor(f.diffs, n) = {}

\* the pairs are_files_different takes past the size test and the inode check
PastShortCircuits(f, n) ==
    /\ Compared(f, n)
    /\ EntryAt(APath(f, n)).type = EntryAt(BPath(f, n)).type
    /\ EntryAt(APath(f, n)).type # "directory"
    /\ ~sizes_differ(APath(f, n), BPath(f, n), EntryAt(APath(f, n)).type)
    /\ ~SameInode(f, n)

\* the reads of bytes and of link targets made on either entry of a pair
PairReads(f, n) ==
    {i \in DOMAIN log :
        /\ log[i].op \in {"open", "read", "read_symlink"}
        /\ log[i].path \in {APath(f, n), BPath(f, n)}}

ProgressCalls == {i \in DOMAIN log : log[i].op = "update_progress"}

(***************************************************************************)
(* C22: update_progress is called exactly once, with A's path, for each    *)
(* pair of entries of one type other than directory that neither the size  *)
(* test nor the device/inode check decides, and before any byte or link    *)
(* target of the pair is read; it is never called for any other name, and  *)
(* each call is one notification on stderr.  With an lstat that failed the *)
(* inode check may go either way, and the call is made at most once.       *)
(***************************************************************************)
C22_ProgressOncePerPair ==
    /\ \A f \in Frames : \A n \in Processed(f) :
          LET calls == Calls("update_progress", APath(f, n)) IN
          /\ Calls("update_progress", BPath(f, n)) = {}
          /\ Cardinality(calls) <= 1
          /\ \A i \in calls : \A j \in PairReads(f, n) : i < j
          /\ PairReads(f, n) # {} => calls # {}
          /\ calls # {} => PastShortCircuits(f, n) \/ lstat_fails # "never"
          /\ (PastShortCircuits(f, n) /\ lstat_fails = "never") => calls # {}
    /\ Len(err) = Cardinality(ProgressCalls)

\* one pair of regular files and one pair of symlinks were read, each after
\* its one notification
C22_Witness ==
    \E f \in Frames : \E n, m \in Processed(f) :
        /\ PastShortCircuits(f, n) /\ EntryAt(APath(f, n)).type = "regular"
        /\ PastShortCircuits(f, m) /\ EntryAt(APath(f, m)).type = "symlink"
        /\ Cardinality(Calls("update_progress", APath(f, n))) = 1
        /\ Cardinality(Calls("update_progress", APath(f, m))) = 1
        /\ Len(err) = 2

\* the calls that wait for a recursive call to return
Waiting == 1..(Len(stack) - 1)

\* while a recursive call is in progress its caller stands at the name of
\* the directory pair the call is on, and holds no record for that name
C23_InProgress ==
    \A i \in Waiting :
        /\ stack[i].comb_child # <<>>
        /\ stack[i + 1].a = a_child_of(stack[i])
        /\ stack[i + 1].b = b_child_of(stack[i])
        /\ RecordsFor(stack[i].diffs, name_of(stack[i])) = {}

\* one step: a waiting call is left as it is until the call above it has
\* returned; a list of records only grows at its end; a directory record is
\* appended only by the return of the call on that directory, which has no
\* name left to process, and holds what that call returned
C23_Step ==
    /\ \A i \in Waiting : i < Len(stack') => stack'[i] = stack[i]
    /\ Len(stack') > Len(stack) =>
          \A i \in 1..Len(stack) : stack'[i] = stack[i]
    /\ \A i \in 1..Min(Len(stack), Len(stack')) :
          /\ IsPrefix(stack[i].diffs, stack'[i].diffs)
          /\ Len(stack'[i].diffs) <= Len(stack[i].diffs) + 1
          /\ \A j \in DOMAIN stack'[i].diffs :
                (j > Len(stack[i].diffs) /\ stack'[i].diffs[j].a_path # NoPath)
                   => /\ Len(stack) = i + 1 /\ Len(stack') = i
                      /\ stack[i + 1].comb_child = <<>>
                      /\ stack[i + 1].a = stack'[i].diffs[j].a_path
                      /\ stack'[i].diffs[j].sub_diffs = stack[i + 1].diffs
                      /\ stack'[i].diffs[j].name = name_of(stack[i])
    /\ (stack # <<>> /\ stack' = <<>> /\ status' = "done") => returned' = stack[1].diffs
    /\ (status = "done" /\ status' = "done") => returned' = returned

(***************************************************************************)
(* C23: the traversal is depth-first and sequential.  While a recursive    *)
(* diff_trees call is in progress its caller processes no other name and   *)
(* holds no record for the directory; the directory's contents record is   *)
(* appended only when that call has returned, with every name below        *)
(* processed, and holds the list the call returned; records and their      *)
(* children are never changed after they are appended.                     *)
(***************************************************************************)
C23_DepthFirst == [](C23_InProgress) /\ [][C23_Step]_vars

\* the call on a directory pair has returned a record list that its caller
\* holds in a contents record, a sibling name still being unprocessed
C23_Witness ==
    /\ Len(stack) = 1
    /\ Cur.comb_child # <<>>
    /\ \E j \in DOMAIN Cur.diffs :
          /\ Cur.diffs[j].sub_diffs # <<>>
          /\ Calls("return", Cur.diffs[j].a_path) # {}

\* what generate_git_diff and its child wrote on stderr
Diagnostics == SelectSeq(err, LAMBDA e : "text" \in DOMAIN e)

\* the child ran git and git exited with 0 or 1
ChildSucceeded ==
    /\ child.kind = "exited"
    /\ WIFEXITED(child.wstatus)
    /\ WEXITSTATUS(child.wstatus) \in {0, 1}

\* after each generate_git_diff call the line of the directory is printed,
\* and after it the line of its first child, one level further in
RenderingGoesOn ==
    \A i \in 1..Len(out) :
        out[i].op = "generate_git_diff"
           => /\ i + 2 <= Len(out)
              /\ out[i + 1].op = "line"
              /\ out[i + 1].name = Last(out[i].a)
              /\ out[i + 1].suffix = ":"
              /\ out[i + 2].op = "line"
              /\ out[i + 2].depth = out[i + 1].depth + 1

(***************************************************************************)
(* C24: when generate_git_diff was called, nothing is written on stderr    *)
(* for a child that exited with 0 or 1, and a diagnostic is written for    *)
(* every other outcome: another exit code, a failed exec (127), a child    *)
(* ended by a signal, a failed fork; in every case the line of the         *)
(* directory and the lines of its children are printed after the call,     *)
(* and main exits with 0.                                                  *)
(***************************************************************************)
C24_GitDiffOutcome ==
    (status = "exit" /\ GitDiffs # <<>>)
        => /\ ChildSucceeded => Diagnostics = <<>>
           /\ ~ChildSucceeded => Len(Diagnostics) >= Len(GitDiffs)
           /\ RenderingGoesOn
           /\ exit_status = 0

RECURSIVE DirDepth(_)
\* how many real directories deep a listing goes: 0 without a subdirectory
DirDepth(l) ==
    LET dirs == {n \in DOMAIN l : l[n].type = "directory"} IN
    IF dirs = {} THEN 0
    ELSE 1 + (CHOOSE d \in {DirDepth(l[n].kids) : n \in dirs} :
                 \A e \in {DirDepth(l[n].kids) : n \in dirs} : e <= d)

NoDuplicates(s) == \A i, j \in DOMAIN s : s[i] = s[j] => i = j

\* the calls made on pairs: none is made twice on one pair
PairCalls == {i \in DOMAIN log : log[i].op \in {"diff_trees", "are_files_different"}}

C25_Bounded ==
    /\ Len(stack) <= 1 + Min(DirDepth(fs[root1]), DirDepth(fs[root2]))
    /\ (Both /\ ~types_differ(Cur) /\ a_type_of(Cur) = "directory")
          => Len(stack) < MaxDepth
    /\ \A f \in Frames :
          /\ NoDuplicates(f.comb_child)
          /\ Range(f.comb_child) \subseteq DOMAIN Children(f.a) \cup DOMAIN Children(f.b)
          /\ EntryAt(f.a).type = "directory" /\ EntryAt(f.b).type = "directory"
    /\ \A i, j \in PairCalls : log[i] = log[j] => i = j

Terminated == status \in {"done", "error"}

(***************************************************************************)
(* C25: diff_trees terminates on every pair of trees, symlinks to the      *)
(* directory that holds them included: the calls active at once are never  *)
(* more than the roots plus the depth of the shallower tree of real        *)
(* directories, only real directories are entered, no name waits twice in  *)
(* one call's loop, no pair is compared or entered twice, and every run    *)
(* that is not stopped comes to its end, by a return or by an exception.   *)
(***************************************************************************)
C25_Terminates == [](C25_Bounded) /\ <>Terminated

\* a run has ended after it compared, inside a subdirectory, two links to
\* the subdirectory itself
C25_Witness ==
    /\ status = "done"
    /\ \E i \in DOMAIN log :
          /\ log[i].op = "are_files_different"
          /\ Len(log[i].path) = 3
          /\ EntryAt(log[i].path).type = "symlink"
          /\ Resolve(log[i].path, MaxEntries) = Front(log[i].path)

\* the should_ignore_file calls made on one path
IgnoreTests(p) == Calls("should_ignore_file", p)

\* every call the log holds was made on an entry that exists
OnExistingEntries ==
    \A i \in DOMAIN log :
        Len(log[i].path) > 1
           => Last(log[i].path) \in DOMAIN Children(Front(log[i].path))

RECURSIVE SameContent(_, _)
\* two entries of one type with the same bytes, the same link target and,
\* for directories, the same names over entries that are the same in turn
SameContent(ea, eb) ==
    /\ ea.type = eb.type
    /\ ea.data = eb.data
    /\ ea.target = eb.target
    /\ DOMAIN ea.kids = DOMAIN eb.kids
    /\ \A name \in DOMAIN ea.kids : SameContent(ea.kids[name], eb.kids[name])

RECURSIVE Reached(_, _, _)
\* the relative paths of the names of two listings and of the names below
\* every name that is a directory on both sides, ".git" aside
Reached(la, lb, prefix) ==
    UNION {{prefix \o <<name>>}
             \cup (IF /\ name \in DOMAIN la /\ name \in DOMAIN lb
                      /\ la[name].type = "directory" /\ lb[name].type = "directory"
                      /\ name # ".git"
                   THEN Reached(la[name].kids, lb[name].kids, prefix \o <<name>>)
                   ELSE {})
           : name \in DOMAIN la \cup DOMAIN lb}

\* the digest build_node gives the entry at a path
HashOf(p) == (CHOOSE built \in build_node(p) : TRUE).n.hash

\* a line with this marker stands for the path
Reported(p, marker) == \E i \in LinesAt(p) : Lines[i].marker = marker

(***************************************************************************)
(* C27: in the hash variant, the hash being free of collisions, every name *)
(* that mismatches is reported when diff_nodes is done: a name only one    *)
(* tree has with "-" or "+", a name that is a directory on one side and    *)
(* not on the other with "!", and two entries of different type or content *)
(* never have the same digest and always have a line.  The names below a   *)
(* ".git" directory, which diff_nodes does not descend into, are left out. *)
(***************************************************************************)
C27_HashReportsMismatches ==
    status = "exit" =>
        \A p \in Reached(fs[root1], fs[root2], <<>>) :
            IF Has(root1, p) # Has(root2, p)
            THEN Reported(p, IF Has(root1, p) THEN "-" ELSE "+")
            ELSE LET ea == EntryAt(<<root1>> \o p)
                     eb == EntryAt(<<root2>> \o p)
                 IN  /\ (ea.type = "directory") # (eb.type = "directory")
                           => Reported(p, "!")
                     /\ ~SameContent(ea, eb)
                           => /\ HashOf(<<root1>> \o p) # HashOf(<<root2>> \o p)
                              /\ LinesAt(p) # {}
====
